---- MODULE Spec2Model ----
(***************************************************************************)
(* The three notebooks of the repository as one state machine: a kernel    *)
(* (namespace ns, position pc) executing the code cells of one notebook    *)
(* top to bottom, and the external collaborators the cells call: identity  *)
(* and session service, image registry, managed training service, object   *)
(* storage and model hosting service.                                      *)
(*                                                                         *)
(*   maskrcnn : pytorch_smdataparallel_maskrcnn_demo.ipynb                 *)
(*   bert     : unnamed/part_001 (TensorFlow2 BERT, FSx)                   *)
(*   deploy   : unnamed/part_000 (deploy a trained model)                  *)
(***************************************************************************)
EXTENDS Naturals, Sequences, FiniteSets, TLC

VARIABLES
    nb,         \* the notebook this kernel runs
    env,        \* what the external identity/session services answer
    inp,        \* the operator's edits of the placeholder literals
    pc,         \* index of the next code cell in Cells(nb)
    status,     \* "running" | "blocked" | "done" | "error"
    ns,         \* kernel namespace: bound names -> values
    reqs,       \* external requests issued so far, in order
    trace,      \* code cells started so far, in order
    registry,   \* argument triples of the successful build/push runs
    job,        \* the training job held by the managed training service
    endpoints,  \* names of the endpoints in service at the hosting service
    created,    \* names of the endpoints this run's deploy requests created
    reruns      \* how often the operator re-executed a cell after the run

vars == <<nb, env, inp, pc, status, ns, reqs, trace, registry, job,
          endpoints, created, reruns>>

----------------------------------------------------------------------------
(* Bounds and input domains                                                *)

\* re-executions of the last cell the operator may add after a finished run
MaxReruns == 1

Notebooks == {"maskrcnn", "bert", "deploy"}
TrainingNotebooks == {"maskrcnn", "bert"}

Regions == {"us-west-2", "us-east-1"}
Accounts == {"111122223333"}
InstanceTypes == {"ml.p3.16xlarge", "ml.p3dn.24xlarge", "ml.p4d.24xlarge"}
InstanceCounts == {1, 2, 4}
Tags == {"latest", "pt1.8"}
FileSystemIds == {"fs-0bYYYYYY", "fs-0aXXXXXX"}
DirectoryPaths == {"/fsx/mask_rcnn/PyTorch", "/fsx/albert"}
DefaultBuckets == {"sagemaker-us-west-2-111122223333"}
RoleParts == <<"arn:aws:iam::111122223333:role", "service-role", "SageMakerRole">>

\* %store holds a model location from a previous training run, or nothing
NoStoredModel == "<no stored variable>"
StoredModels == {NoStoredModel, "s3://previous-run/output/model.tar.gz"}

\* endpoints of other runs that the hosting service may already serve
ForeignEndpoints == {"endpoint-of-another-run"}

----------------------------------------------------------------------------
(* Python helpers                                                          *)

\* ns[name] = value, rebinding the name when it is bound already
Bind(n, name, value) == (name :> value) @@ n

RECURSIVE BindAll(_, _)
\* a run of assignment statements, in order
BindAll(n, assignments) ==
    IF assignments = <<>> THEN n
    ELSE BindAll(Bind(n, Head(assignments)[1], Head(assignments)[2]),
                 Tail(assignments))

Bound(n, name) == name \in DOMAIN n

RECURSIVE Join(_, _)
\* sep.join(parts)
Join(sep, parts) ==
    IF parts = <<>> THEN ""
    ELSE IF Len(parts) = 1 THEN parts[1]
    ELSE parts[1] \o sep \o Join(sep, Tail(parts))

----------------------------------------------------------------------------
(* The code cells of each notebook, in document order                      *)

\* the configuration cell moved ahead of the build/push cell
CellsMaskrcnnConfigFirst ==
    << "setup", "image_tag", "config", "show_dockerfile", "show_build_script",
       "build_and_push", "import_estimator", "hyperparameters",
       "estimator", "fs_input", "fit" >>

\* the configuration cell executed again after the estimator cell
CellsMaskrcnnReconfig ==
    << "setup", "image_tag", "show_dockerfile", "show_build_script",
       "build_and_push", "import_estimator", "config", "hyperparameters",
       "estimator", "config", "fs_input", "fit" >>

CellsMaskrcnn ==
    << "setup", "image_tag", "show_dockerfile", "show_build_script",
       "build_and_push", "import_estimator", "config", "hyperparameters",
       "estimator", "fs_input", "fit" >>

\* the build/push cell issued a second time
CellsBertRetry ==
    << "setup", "image_tag", "show_dockerfile", "show_build_script",
       "build_and_push", "build_and_push", "clone_repo", "import_estimator",
       "config", "hyperparameters", "estimator", "fs_input", "fit" >>

CellsBert ==
    << "setup", "image_tag", "show_dockerfile", "show_build_script",
       "build_and_push", "clone_repo", "import_estimator", "config",
       "hyperparameters", "estimator", "fs_input", "fit" >>

\* the deploy cell issued a second time
CellsDeployTwice ==
    << "define_copy", "find_model", "model", "deploy", "deploy", "teardown" >>

CellsDeploy ==
    << "define_copy", "find_model", "model", "deploy", "teardown" >>

Cells(k) ==
    CASE k = "maskrcnn" -> CellsMaskrcnn
      [] k = "bert"     -> CellsBert
      [] k = "deploy"   -> CellsDeploy

\* cells that neither bind a name nor issue one of the modelled requests
PlainCells == {"show_dockerfile", "show_build_script", "import_estimator"}

----------------------------------------------------------------------------
(* Training notebooks: what each cell binds                                *)

\* role.split(['/'][-1]) is role.split('/'): the parts of the role ARN
RoleName(k, n, e) ==
    IF k = "maskrcnn" THEN Bind(n, "role_name", e.role_parts) ELSE n

\* session/identity cell
SetupEffect(k, n, e) ==
    LET n1 == BindAll(n, << <<"sagemaker_session", "sagemaker.Session">>,
                            <<"bucket", e.bucket>>,
                            <<"role", Join("/", e.role_parts)>> >>)
        n2 == RoleName(k, n1, e)
    IN  BindAll(n2, << <<"client", "sts">>,
                       <<"account", e.account>>,
                       <<"session", "boto3.Session">>,
                       <<"region", e.region>> >>)

\* image = "<...>" ; tag = "<...>"
ImageTagEffect(n, i) ==
    BindAll(n, << <<"image", i.image>>, <<"tag", i.tag>> >>)

\* f"{account}.dkr.ecr.{region}.amazonaws.com/{image}:{tag}"
DockerImage(n) ==
    n["account"] \o ".dkr.ecr." \o n["region"] \o ".amazonaws.com/"
        \o n["image"] \o ":" \o n["tag"]

\* the literal job-name prefix of each training notebook
JobName(k) ==
    IF k = "maskrcnn" THEN "pytorch-smdataparallel-mrcnn-fsx"
    ELSE "smdataparallel-bert-tf2-fsx-2p3dn"

\* the configuration cell with region = '<REGION>' ahead of docker_image
ConfigEffectRegionFirst(k, n, i) ==
    LET n1 == BindAll(n, << <<"instance_type", i.instance_type>>,
                            <<"instance_count", i.instance_count>> >>)
        n2 == IF k = "maskrcnn" THEN Bind(n1, "region", i.cfg_region) ELSE n1
        n3 == Bind(n2, "docker_image", DockerImage(n2))
        n4 == BindAll(n3, << <<"username", "AWS">>,
                             <<"subnets", <<i.subnet>> >>,
                             <<"security_group_ids", <<i.security_group>> >>,
                             <<"job_name", JobName(k)>>,
                             <<"file_system_id", i.file_system_id>> >>)
    IN  IF k = "maskrcnn"
        THEN Bind(n4, "config_file", "e2e_mask_rcnn_R_50_FPN_1x_16GPU_4bs.yaml")
        ELSE n4

\* configuration cell; the statements run in order, so docker_image reads
\* the region bound before the cell's own region = '<REGION>'
ConfigEffect(k, n, i) ==
    LET n1 == BindAll(n, << <<"instance_type", i.instance_type>>,
                            <<"instance_count", i.instance_count>> >>)
        n2 == Bind(n1, "docker_image", DockerImage(n1))
        n3 == IF k = "maskrcnn" THEN Bind(n2, "region", i.cfg_region) ELSE n2
        n4 == BindAll(n3, << <<"username", "AWS">>,
                             <<"subnets", <<i.subnet>> >>,
                             <<"security_group_ids", <<i.security_group>> >>,
                             <<"job_name", JobName(k)>>,
                             <<"file_system_id", i.file_system_id>> >>)
    IN  IF k = "maskrcnn"
        THEN Bind(n4, "config_file", "e2e_mask_rcnn_R_50_FPN_1x_16GPU_4bs.yaml")
        ELSE n4

SM_DATA_ROOT == "/opt/ml/input/data/train"

HyperparametersMaskrcnn(n) ==
    ("config-file" :> n["config_file"]) @@ ("skip-test" :> "")
        @@ ("seed" :> 987) @@ ("dtype" :> "float16")

HyperparametersBert(n) ==
    [ train_dir |-> Join("/", <<n["SM_DATA_ROOT"],
        "tfrecords/train/max_seq_len_128_max_predictions_per_seq_20_masked_lm_prob_15">>),
      val_dir |-> Join("/", <<n["SM_DATA_ROOT"],
        "tfrecords/validation/max_seq_len_128_max_predictions_per_seq_20_masked_lm_prob_15">>),
      log_dir |-> Join("/", <<n["SM_DATA_ROOT"], "checkpoints/bert/logs">>),
      checkpoint_dir |-> Join("/", <<n["SM_DATA_ROOT"], "checkpoints/bert">>),
      load_from |-> "scratch",
      model_type |-> "bert",
      model_size |-> "large",
      per_gpu_batch_size |-> 64,
      max_seq_length |-> 128,
      max_predictions_per_seq |-> 20,
      optimizer |-> "lamb",
      learning_rate |-> "0.005",
      end_learning_rate |-> "0.0003",
      hidden_dropout_prob |-> "0.1",
      attention_probs_dropout_prob |-> "0.1",
      gradient_accumulation_steps |-> 1,
      learning_rate_decay_power |-> "0.5",
      warmup_steps |-> 2812,
      total_steps |-> 2000,
      log_frequency |-> 10,
      run_name |-> n["job_name"],
      squad_frequency |-> 0 ]

\* hyperparameters cell
HyperparametersEffect(k, n) ==
    IF k = "maskrcnn"
    THEN Bind(n, "hyperparameters", HyperparametersMaskrcnn(n))
    ELSE LET n1 == Bind(n, "SM_DATA_ROOT", SM_DATA_ROOT)
         IN  Bind(n1, "hyperparameters", HyperparametersBert(n1))

DistributionWithMpi ==
    [ smdistributed |-> [ dataparallel |-> [ enabled |-> TRUE ] ],
      mpi |-> [ enabled |-> TRUE ] ]

\* distribution={'smdistributed': {'dataparallel': {'enabled': True}}}
Distribution ==
    [ smdistributed |-> [ dataparallel |-> [ enabled |-> TRUE ] ] ]

EstimatorHyperparametersDropped(n) ==
    [ key \in DOMAIN n["hyperparameters"] \ {"dtype", "run_name"} |->
        n["hyperparameters"][key] ]

\* hyperparameters=hyperparameters
EstimatorHyperparameters(n) == n["hyperparameters"]

\* the keyword arguments of PyTorch(...) / TensorFlow(...)
EstimatorCall(k, n) ==
    [ entry_point |-> IF k = "maskrcnn"
                      THEN "train_pytorch_smdataparallel_maskrcnn.py"
                      ELSE "albert/run_pretraining.py",
      role |-> n["role"],
      image_uri |-> n["docker_image"],
      source_dir |-> IF k = "maskrcnn" THEN "."
                     ELSE "deep-learning-models/models/nlp",
      instance_count |-> n["instance_count"],
      instance_type |-> n["instance_type"],
      framework_version |-> IF k = "maskrcnn" THEN "1.8.1" ELSE "2.4.1",
      py_version |-> IF k = "maskrcnn" THEN "py36" ELSE "py37",
      sagemaker_session |-> n["sagemaker_session"],
      hyperparameters |-> EstimatorHyperparameters(n),
      subnets |-> n["subnets"],
      security_group_ids |-> n["security_group_ids"],
      debugger_hook_config |-> FALSE,
      distribution |-> Distribution ]

\* estimator cell
EstimatorEffect(k, n) == Bind(n, "estimator", EstimatorCall(k, n))

\* the read-only literal in both notebooks
AccessModeReadOnly(k) == "ro"

\* file_system_access_mode literal of each notebook
AccessMode(k) == IF k = "maskrcnn" THEN "ro" ELSE "rw"

FileSystemInputSwapped(fsid, fstype, path, mode) ==
    [ file_system_id |-> path, file_system_type |-> fstype,
      directory_path |-> fsid, file_system_access_mode |-> mode ]

\* FileSystemInput(file_system_id=..., file_system_type=...,
\*                 directory_path=..., file_system_access_mode=...)
FileSystemInput(fsid, fstype, path, mode) ==
    [ file_system_id |-> fsid, file_system_type |-> fstype,
      directory_path |-> path, file_system_access_mode |-> mode ]

\* input-channel cell
FsInputEffect(k, n, i) ==
    LET n1 == BindAll(n, << <<"file_system_directory_path", i.directory_path>>,
                            <<"file_system_access_mode", AccessMode(k)>>,
                            <<"file_system_type", "FSxLustre">> >>)
        n2 == Bind(n1, "train_fs",
                   FileSystemInput(n1["file_system_id"], n1["file_system_type"],
                                   n1["file_system_directory_path"],
                                   n1["file_system_access_mode"]))
    IN  Bind(n2, "data_channels", [ train |-> n2["train_fs"] ])

\* the positional arguments of bash build_and_push.sh {region} {image} {tag}
BuildPushArgs(n) == << n["region"], n["image"], n["tag"] >>

\* estimator.fit(inputs=data_channels, job_name=job_name): what is submitted
FitCall(n) ==
    [ descriptor |-> n["estimator"], inputs |-> n["data_channels"],
      job_name |-> n["job_name"] ]

FitNoWait == FALSE

\* fit is called without wait=..., so it blocks until the job is terminal
FitWait == TRUE

----------------------------------------------------------------------------
(* Deployment notebook: what each cell binds                               *)

PublicBucket == "sagemaker-sample-files"
ModelKey == "datasets/image/MNIST/model/model.tar.gz"

\* %store -r model_data: binds the name only when the store holds a value
StoreRestore(n, e) ==
    IF e.stored = NoStoredModel THEN n ELSE Bind(n, "model_data", e.stored)

\* the location of the public original instead of the uploaded copy
CopyResultPublic(e) == "s3://" \o PublicBucket \o "/" \o ModelKey

\* return 's3://' + default_bucket + '/' + key
CopyResult(e) == "s3://" \o e.bucket \o "/" \o ModelKey

\* TensorFlowModel(model_data=model_data, role=role, framework_version='2.3')
TensorFlowModel(model_data, role) ==
    [ model_data |-> model_data, role |-> role, framework_version |-> "2.3" ]

\* model cell
ModelEffect(n, e) ==
    LET n1 == Bind(n, "role", Join("/", e.role_parts))
    IN  Bind(n1, "model", TensorFlowModel(n1["model_data"], n1["role"]))

\* model.deploy(initial_instance_count=1, instance_type='ml.m4.xlarge')
DeployCall(n) ==
    [ model |-> n["model"], initial_instance_count |-> 1,
      instance_type |-> "ml.m4.xlarge" ]

TeardownTargetStale(n) == "endpoint-of-another-run"

\* the endpoint predictor.delete_endpoint() names: the predictor's own
TeardownTarget(n) == n["predictor"].endpoint_name

----------------------------------------------------------------------------
(* Kernel                                                                  *)

Req(kind, args, ok) == [ kind |-> kind, args |-> args, ok |-> ok ]

\* SDK and Python calls raise on failure and stop the run at their cell;
\* a "!" shell line only yields an exit status and the run goes on
ShellKinds == {"build_push", "clone"}
Raises(kind) == kind \notin ShellKinds

Terminal == {"Completed", "Failed"}

CellIs(c) ==
    /\ status = "running"
    /\ pc <= Len(Cells(nb))
    /\ Cells(nb)[pc] = c

\* the cell ended normally: on to the next one
Advance ==
    /\ pc' = pc + 1
    /\ status' = IF pc = Len(Cells(nb)) THEN "done" ELSE "running"

\* the cell ended with an exception: the run stops here
Raise ==
    /\ pc' = pc
    /\ status' = "error"

\* a cell that issues one request and binds names when it succeeds
Outcome(kind, ok, bound) ==
    IF ok \/ ~Raises(kind)
    THEN ns' = (IF ok THEN bound ELSE ns) /\ Advance
    ELSE ns' = ns /\ Raise

----------------------------------------------------------------------------
(* Initial states                                                          *)

ImageNames(k) ==
    IF k = "maskrcnn" THEN {"mask-rcnn-smdataparallel-sagemaker"}
    ELSE {"tf2-smdataparallel-bert-sagemaker"}

EndpointNames == {"tensorflow-inference-2021-01-01"}

Envs(k) ==
    [ account : Accounts, region : Regions, bucket : DefaultBuckets,
      role_parts : {RoleParts},
      stored : IF k = "deploy" THEN StoredModels ELSE {NoStoredModel},
      endpoint_name : EndpointNames ]

TrainingInputs(k) ==
    [ image : ImageNames(k), tag : Tags,
      instance_type : InstanceTypes, instance_count : InstanceCounts,
      cfg_region : IF k = "maskrcnn" THEN Regions ELSE {"<unused>"},
      subnet : {"subnet-0f9XXXX"}, security_group : {"sg-03ZZZZZZ"},
      file_system_id : FileSystemIds, directory_path : DirectoryPaths ]

Inputs(k) ==
    IF k = "deploy" THEN { [ none |-> TRUE ] } ELSE TrainingInputs(k)

Init ==
    /\ nb \in Notebooks
    /\ env \in Envs(nb)
    /\ inp \in Inputs(nb)
    /\ pc = 1
    /\ status = "running"
    /\ ns = << >>
    /\ reqs = << >>
    /\ trace = << >>
    /\ registry = {}
    /\ job = [ state |-> "none" ]
    /\ endpoints \in (IF nb = "deploy" THEN SUBSET ForeignEndpoints ELSE { {} })
    /\ created = {}
    /\ reruns = 0

----------------------------------------------------------------------------
(* Cells of the training notebooks                                         *)

Setup ==
    /\ CellIs("setup")
    /\ trace' = Append(trace, "setup")
    /\ \E ok \in BOOLEAN :
         /\ reqs' = Append(reqs, Req("session", << >>, ok))
         /\ Outcome("session", ok, SetupEffect(nb, ns, env))
    /\ UNCHANGED <<nb, env, inp, registry, job, endpoints, created, reruns>>

ImageTag ==
    /\ CellIs("image_tag")
    /\ trace' = Append(trace, "image_tag")
    /\ ns' = ImageTagEffect(ns, inp)
    /\ Advance
    /\ UNCHANGED <<nb, env, inp, reqs, registry, job, endpoints, created, reruns>>

\* !pygmentize ... and the import cells
PlainCell ==
    /\ \E c \in PlainCells :
         /\ CellIs(c)
         /\ trace' = Append(trace, c)
    /\ Advance
    /\ UNCHANGED <<nb, env, inp, ns, reqs, registry, job, endpoints, created,
                   reruns>>

BuildAndPush ==
    /\ CellIs("build_and_push")
    /\ trace' = Append(trace, "build_and_push")
    /\ \E ok \in BOOLEAN :
         /\ reqs' = Append(reqs, Req("build_push", BuildPushArgs(ns), ok))
         /\ registry' = IF ok THEN registry \cup {BuildPushArgs(ns)}
                        ELSE registry
         /\ Outcome("build_push", ok, ns)
    /\ UNCHANGED <<nb, env, inp, job, endpoints, created, reruns>>

\* !rm -rf deep-learning-models ; !git clone --recursive ...
CloneRepo ==
    /\ CellIs("clone_repo")
    /\ trace' = Append(trace, "clone_repo")
    /\ \E ok \in BOOLEAN :
         /\ reqs' = Append(reqs, Req("clone", << >>, ok))
         /\ Outcome("clone", ok, ns)
    /\ UNCHANGED <<nb, env, inp, registry, job, endpoints, created, reruns>>

Config ==
    /\ CellIs("config")
    /\ trace' = Append(trace, "config")
    /\ ns' = ConfigEffect(nb, ns, inp)
    /\ Advance
    /\ UNCHANGED <<nb, env, inp, reqs, registry, job, endpoints, created, reruns>>

Hyperparameters ==
    /\ CellIs("hyperparameters")
    /\ trace' = Append(trace, "hyperparameters")
    /\ ns' = HyperparametersEffect(nb, ns)
    /\ Advance
    /\ UNCHANGED <<nb, env, inp, reqs, registry, job, endpoints, created, reruns>>

Estimator ==
    /\ CellIs("estimator")
    /\ trace' = Append(trace, "estimator")
    /\ ns' = EstimatorEffect(nb, ns)
    /\ Advance
    /\ UNCHANGED <<nb, env, inp, reqs, registry, job, endpoints, created, reruns>>

FsInput ==
    /\ CellIs("fs_input")
    /\ trace' = Append(trace, "fs_input")
    /\ ns' = FsInputEffect(nb, ns, inp)
    /\ Advance
    /\ UNCHANGED <<nb, env, inp, reqs, registry, job, endpoints, created, reruns>>

\* estimator.fit(...): the request goes out; an accepted job starts running
FitSubmit ==
    /\ CellIs("fit")
    /\ trace' = Append(trace, "fit")
    /\ \E accepted \in BOOLEAN :
         /\ reqs' = Append(reqs, Req("fit", FitCall(ns), accepted))
         /\ IF accepted
            THEN /\ job' = [ state |-> "InProgress" ] @@ FitCall(ns)
                 /\ IF FitWait
                    THEN pc' = pc /\ status' = "blocked"
                    ELSE Advance
            ELSE /\ job' = job
                 /\ Raise
    /\ UNCHANGED <<nb, env, inp, ns, registry, endpoints, created, reruns>>

\* the managed training service reports the job's terminal state
JobTerminal ==
    /\ job.state = "InProgress"
    /\ \E s \in Terminal : job' = [ job EXCEPT !.state = s ]
    /\ UNCHANGED <<nb, env, inp, pc, status, ns, reqs, trace, registry,
                   endpoints, created, reruns>>

\* fit returns once the job is terminal, raising when it failed
FitReturn ==
    /\ status = "blocked"
    /\ job.state \in Terminal
    /\ IF job.state = "Completed" THEN Advance ELSE Raise
    /\ UNCHANGED <<nb, env, inp, ns, reqs, trace, registry, job, endpoints,
                   created, reruns>>

----------------------------------------------------------------------------
(* Cells of the deployment notebook                                        *)

\* import boto3, os, sagemaker ; def copy_model_from_public_bucket(): ...
DefineCopy ==
    /\ CellIs("define_copy")
    /\ trace' = Append(trace, "define_copy")
    /\ ns' = Bind(ns, "copy_model_from_public_bucket", "function")
    /\ Advance
    /\ UNCHANGED <<nb, env, inp, reqs, registry, job, endpoints, created, reruns>>

\* the requests of one call of copy_model_from_public_bucket: the download,
\* and the upload once the download has returned
CopyRequests(e, outcome) ==
    IF outcome = "download_failed"
    THEN << Req("download", <<PublicBucket, ModelKey>>, FALSE) >>
    ELSE << Req("download", <<PublicBucket, ModelKey>>, TRUE),
            Req("upload", <<e.bucket, ModelKey>>, outcome = "ok") >>

NameErrorNotCaught(n) == FALSE

\* try: model_data / except NameError: the handler runs when the name is
\* unbound after the restore
NameErrorCaught(n) == ~Bound(n, "model_data")

\* %store -r model_data ; try: model_data
\* except NameError: model_data = copy_model_from_public_bucket()
FindModel ==
    /\ CellIs("find_model")
    /\ trace' = Append(trace, "find_model")
    /\ LET n1 == StoreRestore(ns, env)
       IN  IF NameErrorCaught(n1)
           THEN \E outcome \in {"download_failed", "upload_failed", "ok"} :
                  /\ reqs' = reqs \o CopyRequests(env, outcome)
                  /\ IF outcome = "ok"
                     THEN ns' = Bind(n1, "model_data", CopyResult(env)) /\ Advance
                     ELSE ns' = n1 /\ Raise
           ELSE /\ reqs' = reqs
                /\ IF Bound(n1, "model_data")
                   THEN ns' = n1 /\ Advance
                   ELSE ns' = n1 /\ Raise
    /\ UNCHANGED <<nb, env, inp, registry, job, endpoints, created, reruns>>

\* role = sagemaker.get_execution_role() ; model = TensorFlowModel(...)
Model ==
    /\ CellIs("model")
    /\ trace' = Append(trace, "model")
    /\ \E ok \in BOOLEAN :
         /\ reqs' = Append(reqs, Req("session", << >>, ok))
         /\ Outcome("session", ok, ModelEffect(ns, env))
    /\ UNCHANGED <<nb, env, inp, registry, job, endpoints, created, reruns>>

\* predictor = model.deploy(...)
Deploy ==
    /\ CellIs("deploy")
    /\ trace' = Append(trace, "deploy")
    /\ \E ok \in BOOLEAN :
         /\ reqs' = Append(reqs, Req("deploy", DeployCall(ns), ok))
         /\ endpoints' = IF ok THEN endpoints \cup {env.endpoint_name}
                         ELSE endpoints
         /\ created' = IF ok THEN created \cup {env.endpoint_name} ELSE created
         /\ Outcome("deploy", ok,
                    Bind(ns, "predictor", [ endpoint_name |-> env.endpoint_name ]))
    /\ UNCHANGED <<nb, env, inp, registry, job, reruns>>

\* predictor.delete_endpoint(): one delete request for the predictor's
\* endpoint; whether the hosting service carries it out or refuses it is not
\* the notebook's to decide
DeleteEndpoint(ok) ==
    /\ reqs' = Append(reqs, Req("delete_endpoint", TeardownTarget(ns), ok))
    /\ endpoints' = IF ok THEN endpoints \ {TeardownTarget(ns)} ELSE endpoints

Teardown ==
    /\ CellIs("teardown")
    /\ trace' = Append(trace, "teardown")
    /\ \E ok \in BOOLEAN :
         /\ DeleteEndpoint(ok)
         /\ Outcome("delete_endpoint", ok, ns)
    /\ UNCHANGED <<nb, env, inp, registry, job, created, reruns>>

\* the operator executes the cleanup cell again after a finished run
RerunTeardown ==
    /\ nb = "deploy"
    /\ status = "done"
    /\ reruns < MaxReruns
    /\ reruns' = reruns + 1
    /\ trace' = Append(trace, "teardown")
    /\ \E ok \in BOOLEAN :
         /\ DeleteEndpoint(ok)
         /\ status' = IF ok \/ ~Raises("delete_endpoint") THEN "done" ELSE "error"
    /\ UNCHANGED <<nb, env, inp, pc, ns, registry, job, created>>

----------------------------------------------------------------------------
(* Specifications                                                          *)

\* one run of a notebook, top to bottom
Next ==
    \/ Setup
    \/ ImageTag
    \/ PlainCell
    \/ BuildAndPush
    \/ CloneRepo
    \/ Config
    \/ Hyperparameters
    \/ Estimator
    \/ FsInput
    \/ FitSubmit
    \/ JobTerminal
    \/ FitReturn
    \/ DefineCopy
    \/ FindModel
    \/ Model
    \/ Deploy
    \/ Teardown

Spec == Init /\ [][Next]_vars

\* the same, with fit's polling loop returning once the job is terminal
FairSpec == Spec /\ WF_vars(FitReturn)

\* a run followed by re-executions of the cleanup cell
NextRerun == Next \/ RerunTeardown

SpecRerun == Init /\ [][NextRerun]_vars

\* the operator executes the configuration cell a second time, right after
\* its first execution and before any other cell
RerunConfig ==
    /\ nb \in TrainingNotebooks
    /\ status = "running"
    /\ pc > 1
    /\ Cells(nb)[pc - 1] = "config"
    /\ reruns < MaxReruns
    /\ reruns' = reruns + 1
    /\ trace' = Append(trace, "config")
    /\ ns' = ConfigEffect(nb, ns, inp)
    /\ UNCHANGED <<nb, env, inp, pc, status, reqs, registry, job, endpoints,
                   created>>

\* a run in which the configuration cell may be executed twice in a row
NextRerunConfig == Next \/ RerunConfig

SpecRerunConfig == Init /\ [][NextRerunConfig]_vars

----------------------------------------------------------------------------
(* Properties                                                              *)

Training == nb \in TrainingNotebooks
Submitted == job.state # "none"

\* the hyperparameter keys written in the hyperparameters cell
ConfiguredKeys ==
    IF nb = "maskrcnn"
    THEN {"config-file", "skip-test", "seed", "dtype"}
    ELSE {"train_dir", "val_dir", "log_dir", "checkpoint_dir", "load_from",
          "model_type", "model_size", "per_gpu_batch_size", "max_seq_length",
          "max_predictions_per_seq", "optimizer", "learning_rate",
          "end_learning_rate", "hidden_dropout_prob",
          "attention_probs_dropout_prob", "gradient_accumulation_steps",
          "learning_rate_decay_power", "warmup_steps", "total_steps",
          "log_frequency", "run_name", "squad_frequency"}

CarriesConfigured(d) ==
    /\ d.instance_type = inp.instance_type
    /\ d.instance_count = inp.instance_count
    /\ DOMAIN d.hyperparameters = ConfiguredKeys
    /\ d.hyperparameters = ns["hyperparameters"]
    /\ nb = "maskrcnn" => /\ d.hyperparameters["config-file"] = ns["config_file"]
                          /\ d.hyperparameters["seed"] = 987
    /\ nb = "bert" => /\ d.hyperparameters["run_name"] = ns["job_name"]
                      /\ d.hyperparameters["total_steps"] = 2000

\* C1: in both training notebooks the job descriptor built by the estimator
\* constructor, and the one submitted, carry the configured instance type,
\* instance count and hyperparameter mapping: same keys, same values.
C1_DescriptorPassThrough ==
    /\ (Training /\ Bound(ns, "estimator")) => CarriesConfigured(ns["estimator"])
    /\ (Training /\ Submitted) => CarriesConfigured(job.descriptor)

C1_Witness ==
    /\ nb = "bert"
    /\ job.state = "InProgress"
    /\ inp.instance_count = 4
    /\ inp.instance_type = "ml.p4d.24xlarge"

\* C2: the input-channel binding submitted with the job has exactly one
\* channel, 'train', whose file-system id, directory path and access mode
\* are the configured ones, the access mode being 'ro' or 'rw'.
C2_ChannelBinding ==
    (Training /\ Submitted) =>
        /\ DOMAIN job.inputs = {"train"}
        /\ job.inputs["train"].file_system_id = inp.file_system_id
        /\ job.inputs["train"].directory_path = inp.directory_path
        /\ job.inputs["train"].file_system_access_mode
               = ns["file_system_access_mode"]
        /\ job.inputs["train"].file_system_access_mode \in {"ro", "rw"}

C2_Witness ==
    /\ nb = "maskrcnn"
    /\ Submitted
    /\ job.inputs["train"].file_system_access_mode = "ro"
    /\ job.inputs["train"].file_system_id = "fs-0aXXXXXX"

OnlyDataParallel(dist) ==
    /\ DOMAIN dist = {"smdistributed"}
    /\ DOMAIN dist.smdistributed = {"dataparallel"}
    /\ DOMAIN dist.smdistributed.dataparallel = {"enabled"}
    /\ dist.smdistributed.dataparallel.enabled = TRUE

\* C3: every submitted job descriptor has the data-parallel flag set to true
\* and no other distribution flag, in the submission request itself and in
\* the job the service holds.
C3_OnlyDataParallelFlag ==
    /\ \A i \in 1..Len(reqs) :
         reqs[i].kind = "fit" => OnlyDataParallel(reqs[i].args.descriptor.distribution)
    /\ Submitted => OnlyDataParallel(job.descriptor.distribution)

C3_Witness ==
    /\ Training
    /\ Len(reqs) > 0
    /\ reqs[Len(reqs)].kind = "fit"
    /\ reqs[Len(reqs)].ok
    /\ job.state = "Completed"

DeployThenTeardownReturned ==
    \E i, j \in 1..Len(reqs) :
        /\ i < j
        /\ reqs[i].kind = "deploy" /\ reqs[i].ok
        /\ reqs[j].kind = "delete_endpoint" /\ reqs[j].ok

\* C4: in the deployment notebook, once the deploy request and then the
\* teardown request have returned, no endpoint created by the run is in
\* service; every run that reaches the end of the notebook is such a run.
C4_NoEndpointLeft ==
    /\ DeployThenTeardownReturned => created \cap endpoints = {}
    /\ (nb = "deploy" /\ status = "done") =>
           (DeployThenTeardownReturned /\ created # {})

C4_Witness ==
    /\ nb = "deploy"
    /\ status = "done"
    /\ reruns = 0
    /\ endpoints = ForeignEndpoints

TeardownRequests == { i \in 1..Len(reqs) : reqs[i].kind = "delete_endpoint" }

\* C5 as stated: a second execution of the teardown step leaves no endpoint
\* of the run in service and does not end in an error state.
C5_SecondTeardownNoError ==
    (nb = "deploy" /\ reruns >= 1) =>
        /\ created \cap endpoints = {}
        /\ status # "error"

\* C5, amended: executing the teardown step again after it has succeeded
\* leaves the hosting service as the first execution left it, with no
\* endpoint of the run in service; the repeated request may be refused, and
\* the refusal ends the cell in an error state.
C5_SecondTeardownSameState ==
    [][ reruns' # reruns =>
          /\ Cardinality(TeardownRequests) >= 1
          /\ \A i \in TeardownRequests : reqs[i].ok
          /\ Len(reqs') = Len(reqs) + 1
          /\ reqs'[Len(reqs')].kind = "delete_endpoint"
          /\ reqs'[Len(reqs')].args \in created
          /\ endpoints' = endpoints
          /\ created \cap endpoints' = {}
          /\ status' \in {"done", "error"} ]_vars

C5_Witness ==
    /\ nb = "deploy"
    /\ reruns = 1
    /\ Cardinality(TeardownRequests) = 2
    /\ created # {}
    /\ created \cap endpoints = {}
    /\ status = "error"

Terminated == status \in {"done", "error"}

\* C6: job submission is synchronous: while the job is not terminal the
\* kernel is blocked in fit and no cell runs; the run goes past fit only
\* with a terminal job; once the job is terminal the run terminates.
C6_SynchronousSubmission ==
    /\ [](job.state = "InProgress" => status = "blocked")
    /\ []((Submitted /\ Terminated) => job.state \in Terminal)
    /\ [][ job.state = "InProgress" => UNCHANGED <<pc, ns, reqs, trace>> ]_vars
    /\ ((Submitted /\ job.state \in Terminal) ~> Terminated)

C6_Witness ==
    /\ Training
    /\ status = "blocked"
    /\ job.state = "Failed"

Before(a, b) ==
    \A j \in 1..Len(trace) :
        trace[j] = b => \E i \in 1..(j - 1) : trace[i] = a

ExternalKinds ==
    {"build_push", "fit", "download", "upload", "deploy", "delete_endpoint"}

\* requests that take back what an earlier request set up
UndoKinds == {"delete_endpoint"}

\* C8: in a run each external request is issued at most once, and after a
\* failed request no request repeats it or undoes an earlier step.
C8_NoRetryNoRollback ==
    /\ \A k \in ExternalKinds :
         Cardinality({ i \in 1..Len(reqs) : reqs[i].kind = k }) <= 1
    /\ \A i, j \in 1..Len(reqs) :
         (i < j /\ ~reqs[i].ok) =>
             /\ reqs[j].kind # reqs[i].kind
             /\ reqs[j].kind \notin UndoKinds
    /\ job.state = "Failed" => reqs[Len(reqs)].kind = "fit"

C8_Witness ==
    /\ Len(reqs) >= 2
    /\ \E i \in 1..(Len(reqs) - 1) : reqs[i].kind = "build_push" /\ ~reqs[i].ok
    /\ reqs[Len(reqs)].kind = "fit"

Ran(c) == \E i \in 1..Len(trace) : trace[i] = c

RestoreGaveNothing ==
    nb = "deploy" /\ env.stored = NoStoredModel /\ Ran("find_model")

CopyInvoked == \E i \in 1..Len(reqs) : reqs[i].kind = "download"

Count(c) == Cardinality({ i \in 1..Len(trace) : trace[i] = c })
FitRequests == { i \in 1..Len(reqs) : reqs[i].kind = "fit" }

BuiltFromCurrent(est) ==
    /\ est.image_uri = ns["docker_image"]
    /\ est.instance_type = ns["instance_type"]
    /\ est.instance_count = ns["instance_count"]
    /\ est.subnets = ns["subnets"]
    /\ est.security_group_ids = ns["security_group_ids"]
    /\ est.hyperparameters = ns["hyperparameters"]
    /\ est.role = ns["role"]

\* C10: in both training notebooks the estimator is constructed once, the
\* values it was built from and the estimator itself stay as they were from
\* construction to submission, and one submission call consumes it.
C10_DescriptorOnceImmutable ==
    /\ [](Training =>
            /\ Count("estimator") <= 1
            /\ Cardinality(FitRequests) <= 1
            /\ Bound(ns, "estimator") => BuiltFromCurrent(ns["estimator"])
            /\ \A i \in FitRequests :
                 /\ Count("estimator") = 1
                 /\ reqs[i].args.descriptor = ns["estimator"]
            /\ status = "done" => Cardinality(FitRequests) = 1)
    /\ [][ (Training /\ Bound(ns, "estimator")) =>
             /\ Bound(ns', "estimator")
             /\ ns'["estimator"] = ns["estimator"] ]_vars

C10_Witness ==
    /\ nb = "maskrcnn"
    /\ status = "done"
    /\ job.state = "Completed"
    /\ Count("estimator") = 1

DeployRequests == { i \in 1..Len(reqs) : reqs[i].kind = "deploy" }

\* C11: in the deployment notebook the model descriptor goes into exactly
\* one deploy request; a teardown request is issued only after that deploy
\* request has returned the endpoint handle, and names that endpoint; deploy
\* and teardown are one request each.
C11_DeployOnceThenTeardown ==
    nb = "deploy" =>
        /\ Cardinality(DeployRequests) <= 1
        /\ Cardinality(TeardownRequests) <= 1
        /\ Count("deploy") <= 1
        /\ Count("teardown") <= 1
        /\ \A i \in DeployRequests :
             /\ Bound(ns, "model")
             /\ reqs[i].args.model = ns["model"]
             /\ reqs[i].ok <=> Bound(ns, "predictor")
        /\ \A j \in TeardownRequests :
             /\ \E i \in DeployRequests : i < j /\ reqs[i].ok
             /\ Bound(ns, "predictor")
             /\ reqs[j].args = ns["predictor"].endpoint_name
             /\ reqs[j].args \in created
        /\ status = "done" =>
             (Cardinality(DeployRequests) = 1 /\ Cardinality(TeardownRequests) = 1)

C11_Witness ==
    /\ nb = "deploy"
    /\ Len(reqs) >= 2
    /\ reqs[Len(reqs) - 1].kind = "deploy"
    /\ reqs[Len(reqs) - 1].ok
    /\ reqs[Len(reqs)].kind = "delete_endpoint"
    /\ reqs[Len(reqs)].args = env.endpoint_name

BuildPushRequests == { i \in 1..Len(reqs) : reqs[i].kind = "build_push" }

\* <account>.dkr.ecr.<region>.amazonaws.com/<image>:<tag> for the arguments
\* a build/push run was given
ImageNamedBy(account, args) ==
    account \o ".dkr.ecr." \o args[1] \o ".amazonaws.com/"
        \o args[2] \o ":" \o args[3]

\* C12: in both training notebooks the image reference in the job descriptor
\* is <account>.dkr.ecr.<region>.amazonaws.com/<image>:<tag> for the region,
\* image name and tag the build/push script was given in that run, also in
\* the MaskRCNN notebook, whose configuration cell rebinds region.
C12_ImageReferenceNamesPushed ==
    /\ (Training /\ Bound(ns, "docker_image")) =>
           \A i \in BuildPushRequests :
               ns["docker_image"] = ImageNamedBy(env.account, reqs[i].args)
    /\ (Training /\ Submitted) =>
           /\ BuildPushRequests # {}
           /\ \A i \in BuildPushRequests :
                  job.descriptor.image_uri = ImageNamedBy(env.account, reqs[i].args)

C12_Witness ==
    /\ nb = "maskrcnn"
    /\ Submitted
    /\ ns["region"] # env.region
    /\ \E i \in BuildPushRequests : reqs[i].ok /\ reqs[i].args \in registry

\* C13: executing the configuration cell of a training notebook a second
\* time, with no other cell in between, leaves every variable of the
\* session, docker_image included, as the first execution left it, in the
\* MaskRCNN and in the BERT notebook.
C13_ConfigCellIdempotent ==
    [][ (nb \in TrainingNotebooks /\ reruns' # reruns) => ns' = ns ]_vars

Restored == env.stored # NoStoredModel

DownloadRequests == { i \in 1..Len(reqs) : reqs[i].kind = "download" }
UploadRequests == { i \in 1..Len(reqs) : reqs[i].kind = "upload" }

\* the location the copy gives back: downloaded under a key from the public
\* bucket, then uploaded under the same key to the default bucket
CopiedTo(location) ==
    \E i \in DownloadRequests, j \in UploadRequests :
        /\ i < j
        /\ reqs[i].ok /\ reqs[j].ok
        /\ reqs[i].args[1] = PublicBucket
        /\ reqs[j].args[1] = env.bucket
        /\ reqs[i].args[2] = reqs[j].args[2]
        /\ location = "s3://" \o reqs[j].args[1] \o "/" \o reqs[i].args[2]

\* C14: in the deployment notebook the artifact location given to the model
\* descriptor is defined at deploy time and is either the restored stored
\* location, the copy then not being invoked, or the value the copy returns:
\* s3://<default bucket>/<key> for the key downloaded from the public bucket
\* and then uploaded to the default bucket.
C14_ArtifactLocationOrigin ==
    nb = "deploy" =>
        /\ Restored => (DownloadRequests = {} /\ UploadRequests = {})
        /\ \A j \in UploadRequests :
             \E i \in DownloadRequests : i < j /\ reqs[i].ok
        /\ Bound(ns, "model") =>
             /\ Bound(ns, "model_data")
             /\ ns["model"].model_data = ns["model_data"]
        /\ \A d \in DeployRequests :
             /\ Restored => reqs[d].args.model.model_data = env.stored
             /\ ~Restored => CopiedTo(reqs[d].args.model.model_data)

C14_Witness ==
    /\ nb = "deploy"
    /\ ~Restored
    /\ \E d \in DeployRequests :
         /\ reqs[d].ok
         /\ reqs[d].args.model.model_data =
                "s3://sagemaker-us-west-2-111122223333/datasets/image/MNIST/model/model.tar.gz"

\* C15: a training job is submitted only with an image that was pushed: in
\* a run in which the build/push script ended with a non-zero exit status
\* the job-submission call is not reached.
C15_NoSubmissionAfterFailedPush ==
    \A i \in BuildPushRequests :
        ~reqs[i].ok => /\ FitRequests = {}
                       /\ ~Ran("fit")

StartsWith(s, prefix) ==
    /\ Len(s) >= Len(prefix)
    /\ SubSeq(s, 1, Len(prefix)) = prefix

\* where the training container mounts an input channel
MountPoint(channel) == "/opt/ml/input/data/" \o channel

\* hyperparameters naming directories the training script writes to
WriteDirKeys == {"log_dir", "checkpoint_dir"}
DirKeys == {"train_dir", "val_dir", "log_dir", "checkpoint_dir"}

WritesUnder(hp, channel) ==
    \E key \in WriteDirKeys \cap DOMAIN hp :
        StartsWith(hp[key], MountPoint(channel))

\* C16: when a submitted job's hyperparameters name a log or checkpoint
\* directory under the mount point of the 'train' channel, that channel is
\* bound read-write, never read-only; in the BERT notebook the four directory
\* hyperparameters all lie under the mount point of the one bound channel,
\* 'train'.
C16_WritePathsOnReadWriteChannel ==
    \A f \in FitRequests :
        LET hp == reqs[f].args.descriptor.hyperparameters
            inputs == reqs[f].args.inputs
        IN  /\ \A channel \in DOMAIN inputs :
                 WritesUnder(hp, channel) =>
                     inputs[channel].file_system_access_mode = "rw"
            /\ nb = "bert" =>
                 /\ DOMAIN inputs = {"train"}
                 /\ DirKeys \subseteq DOMAIN hp
                 /\ \A key \in DirKeys : StartsWith(hp[key], MountPoint("train"))
                 /\ WritesUnder(hp, "train")
            /\ nb = "maskrcnn" =>
                 /\ inputs["train"].file_system_access_mode = "ro"
                 /\ ~WritesUnder(hp, "train")

C16_Witness ==
    /\ nb = "bert"
    /\ \E f \in FitRequests :
         /\ reqs[f].ok
         /\ WritesUnder(reqs[f].args.descriptor.hyperparameters, "train")
         /\ reqs[f].args.inputs["train"].file_system_access_mode = "rw"

====
